---- MODULE Spec2Model ----
(***************************************************************************)
(* A state-machine model of the flow-field particle engine:                *)
(*   FlowField      (src/src/FlowField.js, lines 14-295)                   *)
(*   Particle       (src/src/FlowField.js, lines 307-410)                  *)
(*   ParticleSystem (src/src/ParticleSystem.js), rendering calls omitted   *)
(*                                                                         *)
(* Numbers.  The code computes in IEEE doubles.  The model computes in     *)
(* fixed point: a length, a velocity, a force component or a speed         *)
(* multiplier v is the integer round(v * FP); the field time and the noise *)
(* coordinates are integers in units of 1/TimeDen; an angle is an integer  *)
(* number of milliradians.  Every product or quotient is rounded to the    *)
(* nearest representable value, as the floating-point unit does at its own *)
(* (finer) resolution.  Math.random() returning r is the integer           *)
(* r * RandDen, 0 <= r * RandDen < RandDen.                                *)
(***************************************************************************)
EXTENDS Integers, Sequences, FiniteSets, TLC

VARIABLES
    flowField,  \* the FlowField object: a record of its fields
    particles,  \* the Particle objects, in list order: a sequence of records
    sys,        \* the ParticleSystem's own fields (width, height, particleCount, speed)
    pc,         \* position inside ParticleSystem.update: "idle" or "loop"
    idx,        \* loop variable i of ParticleSystem.update, 1-based
    lastCall,   \* observer: the last call made and its arguments
    tick,       \* observer: what the current ParticleSystem.update pass has done so far
    budget      \* observer: the calls the environment has made so far (bounds the run)

vars == <<flowField, particles, sys, pc, idx, lastCall, tick, budget>>

----------------------------------------------------------------------------
(* Number representation *)

FP == 10 ^ 2          \* lengths, velocities, forces, multipliers: 1/100
TimeDen == 10 ^ 4     \* field time and noise coordinates: 1/10000
RandDen == 2 ^ 10     \* Math.random(): k/1024, k in 0..1023

Abs(n) == IF n < 0 THEN -n ELSE n
Min(a, b) == IF a < b THEN a ELSE b
Max(a, b) == IF a < b THEN b ELSE a

\* n/d rounded to the nearest integer, halves away from zero (d > 0)
RoundDiv(n, d) ==
    IF n >= 0 THEN (2 * n + d) \div (2 * d) ELSE -((2 * (-n) + d) \div (2 * d))

RECURSIVE SqrtIter(_, _)
SqrtIter(n, g) ==
    LET h == (g + n \div g) \div 2
    IN  IF h >= g THEN g ELSE SqrtIter(n, h)

\* Math.sqrt on fixed-point squares: the nearest integer to sqrt(n)
Sqrt(n) ==
    IF n = 0 THEN 0
    ELSE LET f == SqrtIter(n, n)
         IN  IF n - f * f > f THEN f + 1 ELSE f

\* Math.random() * a
RandomTimes(r, a) == RoundDiv(r * a, RandDen)

----------------------------------------------------------------------------
(* Particle: src/src/FlowField.js lines 307-410 *)

padding == 50
maxSpeed == 2
maxHistory == 20
margin == 2
\* 0.3 and 0.7 in units of 1/FP
forceGain == 30
damping == 70

\* constructor(x, y, width, height); rx, ry, rh are its three Math.random() draws.
\* The x and y arguments are ignored by the code.
Particle_new(width, height, rx, ry, rh) ==
    [ x       |-> padding * FP + RandomTimes(rx, width - padding * FP * 2),
      y       |-> padding * FP + RandomTimes(ry, height - padding * FP * 2),
      width   |-> width,
      height  |-> height,
      vx      |-> 0,
      vy      |-> 0,
      hue     |-> RandomTimes(rh, 360 * FP),
      history |-> << >>,
      bounced |-> FALSE ]

\* lines 344-348: currentSpeed and the velocity after the cap
CurrentSpeed(vx, vy) == Sqrt(vx * vx + vy * vy)

\* A wrong cap: the velocity is left as it is
CapSpeed_NoCap(vx, vy) == [vx |-> vx, vy |-> vy]

CapSpeed(vx, vy) ==
    LET currentSpeed == CurrentSpeed(vx, vy)
    IN  IF currentSpeed > maxSpeed * FP
        THEN [vx |-> RoundDiv(vx * maxSpeed * FP, currentSpeed),
              vy |-> RoundDiv(vy * maxSpeed * FP, currentSpeed)]
        ELSE [vx |-> vx, vy |-> vy]

\* A wrong eviction: the oldest is dropped already at maxHistory
PushHistory_ShiftAtMax(history, x, y) ==
    LET pushed == Append(history, [x |-> x, y |-> y])
    IN  IF Len(pushed) >= maxHistory THEN Tail(pushed) ELSE pushed

\* lines 351-354: push, then shift when longer than maxHistory
PushHistory(history, x, y) ==
    LET pushed == Append(history, [x |-> x, y |-> y])
    IN  IF Len(pushed) > maxHistory THEN Tail(pushed) ELSE pushed

\* A wrong X boundary: no clamp at the upper margin
BounceX_NoClampHigh(x, vx, width) ==
    IF x < margin * FP
    THEN [pos |-> margin * FP, vel |-> RoundDiv(Abs(vx) * damping, FP), bounced |-> TRUE]
    ELSE IF x > width - margin * FP
    THEN [pos |-> x, vel |-> -RoundDiv(Abs(vx) * damping, FP), bounced |-> TRUE]
    ELSE [pos |-> x, vel |-> vx, bounced |-> FALSE]

\* A wrong X boundary: the damped velocity keeps its sign
BounceX_KeepSign(x, vx, width) ==
    IF x < margin * FP
    THEN [pos |-> margin * FP, vel |-> RoundDiv(vx * damping, FP), bounced |-> TRUE]
    ELSE IF x > width - margin * FP
    THEN [pos |-> width - margin * FP, vel |-> RoundDiv(vx * damping, FP), bounced |-> TRUE]
    ELSE [pos |-> x, vel |-> vx, bounced |-> FALSE]

\* lines 366-374: the X boundary; x and vx are the values after the integration
BounceX(x, vx, width) ==
    IF x < margin * FP
    THEN [pos |-> margin * FP, vel |-> RoundDiv(Abs(vx) * damping, FP), bounced |-> TRUE]
    ELSE IF x > width - margin * FP
    THEN [pos |-> width - margin * FP, vel |-> -RoundDiv(Abs(vx) * damping, FP),
          bounced |-> TRUE]
    ELSE [pos |-> x, vel |-> vx, bounced |-> FALSE]

\* lines 377-385: the Y boundary
BounceY(y, vy, height) ==
    IF y < margin * FP
    THEN [pos |-> margin * FP, vel |-> RoundDiv(Abs(vy) * damping, FP), bounced |-> TRUE]
    ELSE IF y > height - margin * FP
    THEN [pos |-> height - margin * FP, vel |-> -RoundDiv(Abs(vy) * damping, FP),
          bounced |-> TRUE]
    ELSE [pos |-> y, vel |-> vy, bounced |-> FALSE]

\* A wrong clearing: the history is kept
ClearIfBounced_Never(history, bounced) == history

\* lines 388-390
ClearIfBounced(history, bounced) == IF bounced THEN << >> ELSE history

\* lines 393-394: speedRatio * 120, in 1/FP degrees; currentSpeed is the value
\* computed at line 344, before the cap
ColorHint(currentSpeed) == RoundDiv(currentSpeed * FP, maxSpeed * FP) * 120

\* lines 340-358 of update: the force applied, the speed capped, the position
\* pushed on the history and then integrated; no boundary looked at yet
Integrate(p, force, speed) ==
    LET vx1 == p.vx + RoundDiv(force.x * forceGain, FP)
        vy1 == p.vy + RoundDiv(force.y * forceGain, FP)
        v   == CapSpeed(vx1, vy1)
    IN  [ currentSpeed |-> CurrentSpeed(vx1, vy1),
          vx      |-> v.vx,
          vy      |-> v.vy,
          history |-> PushHistory(p.history, p.x, p.y),
          x       |-> p.x + RoundDiv(v.vx * speed, FP),
          y       |-> p.y + RoundDiv(v.vy * speed, FP) ]

\* update(force, speed), lines 337-395
Particle_update(p, force, speed) ==
    LET m  == Integrate(p, force, speed)
        bx == BounceX(m.x, m.vx, p.width)
        by == BounceY(m.y, m.vy, p.height)
        bounced == bx.bounced \/ by.bounced
    IN  [ p EXCEPT !.x = bx.pos, !.y = by.pos, !.vx = bx.vel, !.vy = by.vel,
                   !.history = ClearIfBounced(m.history, bounced),
                   !.bounced = bounced,
                   !.hue = ColorHint(m.currentSpeed) ]

\* A wrong reset: the velocity is kept
Particle_reset_KeepVelocity(p, width, height, rx, ry) ==
    [ p EXCEPT !.x = padding * FP + RandomTimes(rx, width - padding * FP * 2),
               !.y = padding * FP + RandomTimes(ry, height - padding * FP * 2),
               !.history = << >>,
               !.width = width,
               !.height = height,
               !.bounced = FALSE ]

\* reset(width, height), lines 400-409; rx, ry are its two Math.random() draws.
\* bounced is a local of update: none is live after reset.
Particle_reset(p, width, height, rx, ry) ==
    [ p EXCEPT !.x = padding * FP + RandomTimes(rx, width - padding * FP * 2),
               !.y = padding * FP + RandomTimes(ry, height - padding * FP * 2),
               !.vx = 0,
               !.vy = 0,
               !.history = << >>,
               !.width = width,
               !.height = height,
               !.bounced = FALSE ]

\* ParticleSystem.resize's loop body, src/src/ParticleSystem.js lines 278-281
Particle_setSize(p, width, height) ==
    [ p EXCEPT !.width = width, !.height = height ]

----------------------------------------------------------------------------
(* Math functions on fixed-point numbers; angles in milliradians *)

PiMrad == 3142
TwoPiMrad == 2 * PiMrad
HalfPiMrad == PiMrad \div 2
Milli == 10 ^ 3

\* sin on [0, pi]: 16 x (pi - x) / (5 pi^2 - 4 x (pi - x)), result in 1/FP
SinHalfTurn(x) ==
    LET p == x * (PiMrad - x)
    IN  RoundDiv(4 * p * FP, RoundDiv(5 * PiMrad * PiMrad - 4 * p, 4))

\* Math.sin, Math.cos
Sin(a) ==
    LET r == a % TwoPiMrad
    IN  IF r <= PiMrad THEN SinHalfTurn(r) ELSE -SinHalfTurn(r - PiMrad)

Cos(a) == Sin(a + HalfPiMrad)

\* atan on [0, 1]: z (pi/4 + 0.273 (1 - z)), z in 1/Milli
AtanUnit(z) == RoundDiv(z * (785 * Milli + 273 * (Milli - z)), Milli * Milli)

\* Math.atan2(y, x)
Atan2(y, x) ==
    IF x = 0 /\ y = 0 THEN 0
    ELSE LET ax == Abs(x)
             ay == Abs(y)
             a  == IF ay <= ax THEN AtanUnit(RoundDiv(ay * Milli, ax))
                   ELSE HalfPiMrad - AtanUnit(RoundDiv(ax * Milli, ay))
             b  == IF x < 0 THEN PiMrad - a ELSE a
         IN  IF y < 0 THEN -b ELSE b

----------------------------------------------------------------------------
(* FlowField: src/src/FlowField.js lines 14-295 *)

scale == 100
mouseRadius == 150
\* 0.5 in units of 1/FP
mouseForce == 50
TableSize == 512
Modes == {"flow", "galaxy", "vortex", "chaos"}

\* lines 61-74
grad3 ==
    << <<1, 1, 0>>, <<-1, 1, 0>>, <<1, -1, 0>>, <<-1, -1, 0>>,
       <<1, 0, 1>>, <<-1, 0, 1>>, <<1, 0, -1>>, <<-1, 0, -1>>,
       <<0, 1, 1>>, <<0, -1, 1>>, <<0, 1, -1>>, <<0, -1, -1>> >>

\* A wrong mask: the remainder of the division, which keeps the sign of i
And255_Remainder(i) == IF i < 0 THEN -((-i) % 256) ELSE i % 256

\* i & 255
And255(i) == i % 256

\* What reading an array at an index it does not hold yields (undefined), and
\* what adding a number to that yields (NaN); neither is a table index
Undefined == -(2 ^ 20)

\* this.perm[i]
TableRead(perm, i) == IF i \in DOMAIN perm THEN perm[i] ELSE Undefined

\* a + b where a may be undefined or NaN
Plus(a, b) == IF a = Undefined THEN Undefined ELSE a + b

\* lines 48-51: p[i] = Math.floor(Math.random() * 256); draws[i] is the i-th draw
PermSource(draws) == [i \in 0 .. 255 |-> (draws[i] * 256) \div RandDen]

\* lines 54-57, the perm half
PermTable(p) == [i \in 0 .. TableSize - 1 |-> p[And255(i)]]

\* lines 54-57, the gradP half
GradTable(perm) == [i \in 0 .. TableSize - 1 |-> grad3[(perm[i] % 12) + 1]]

\* The time-advance rates of setMode (lines 271-283), in 1/TimeDen
ModeTimeSpeed(mode) ==
    CASE mode = "galaxy" -> 1
      [] mode = "vortex" -> 5
      [] mode = "chaos"  -> 10
      [] OTHER           -> 3

\* constructor(width, height, mode), lines 15-34, with initPerlin (42-58) inlined
FlowField_new(width, height, mode, draws) ==
    LET perm == PermTable(PermSource(draws))
    IN  [ width        |-> width,
          height       |-> height,
          mode         |-> mode,
          time         |-> 0,
          timeSpeed    |-> 3,
          mouseX       |-> RoundDiv(width, 2),
          mouseY       |-> RoundDiv(height, 2),
          mousePressed |-> FALSE,
          perm         |-> perm,
          gradP        |-> GradTable(perm) ]

\* initPerlin(), lines 42-58, called on a constructed field: both tables are
\* rebuilt from 256 new draws
FlowField_initPerlin(ff, draws) ==
    LET perm == PermTable(PermSource(draws))
    IN  [ff EXCEPT !.perm = perm, !.gradP = GradTable(perm)]

\* fade(t), lines 81-83; t and the result in 1/TimeDen
fade(t) ==
    LET a  == RoundDiv(t * (t * 6 - 15 * TimeDen), TimeDen) + 10 * TimeDen
        t2 == RoundDiv(t * t, TimeDen)
        t3 == RoundDiv(t2 * t, TimeDen)
    IN  RoundDiv(t3 * a, TimeDen)

\* lerp(a, b, t), lines 88-90
lerp(a, b, t) == RoundDiv((TimeDen - t) * a + t * b, TimeDen)

\* grad(hash, x, y), lines 138-143
grad(hash, x, y) ==
    LET h == IF hash = Undefined THEN 0 ELSE hash % 4
        u == IF h < 2 THEN x ELSE y
        v == IF h < 2 THEN y ELSE x
    IN  (IF h % 2 = 0 THEN u ELSE -u) + (IF (h \div 2) % 2 = 0 THEN v ELSE -v)

\* The table reads of noise2D, lines 100-101 and 112-117
NoiseCell(perm, x, y) ==
    LET X == And255(x \div TimeDen)
        Y == And255(y \div TimeDen)
        A == Plus(TableRead(perm, X), Y)
        B == Plus(TableRead(perm, X + 1), Y)
    IN  [X |-> X, Y |-> Y, A |-> A, B |-> B,
         AA |-> TableRead(perm, A), AB |-> TableRead(perm, Plus(A, 1)),
         BA |-> TableRead(perm, B), BB |-> TableRead(perm, Plus(B, 1))]

\* noise2D(x, y), lines 98-133; x, y and the result in 1/TimeDen
noise2D(perm, x, y) ==
    LET c  == NoiseCell(perm, x, y)
        xf == x % TimeDen
        yf == y % TimeDen
        u  == fade(xf)
        v  == fade(yf)
    IN  lerp(lerp(grad(TableRead(perm, c.AA), xf, yf),
                  grad(TableRead(perm, c.BA), xf - TimeDen, yf), u),
             lerp(grad(TableRead(perm, c.AB), xf, yf - TimeDen),
                  grad(TableRead(perm, c.BB), xf - TimeDen, yf - TimeDen), u),
             v)

\* x / (this.scale * tenths / 10): a length in 1/FP to a noise coordinate
NoiseCoord(x, tenths) == RoundDiv(x * (TimeDen \div FP) * 10, scale * tenths)

\* noise * radians: a noise value in 1/TimeDen times an amplitude in milliradians
Times(n, mrad) == RoundDiv(n * mrad, TimeDen)

\* The switch of getVector, lines 154-216
ModeAngle(ff, x, y) ==
    LET dx   == x - RoundDiv(ff.width, 2)
        dy   == y - RoundDiv(ff.height, 2)
        dist == Sqrt(dx * dx + dy * dy)
    IN  CASE ff.mode = "flow" ->
               Times(noise2D(ff.perm, NoiseCoord(x, 10), NoiseCoord(y, 10) + ff.time),
                     TwoPiMrad)
          [] ff.mode = "galaxy" ->
               Atan2(dy, dx) + RoundDiv(dist * 10, FP)
               + Times(noise2D(ff.perm, NoiseCoord(x, 10), NoiseCoord(y, 10)), 500)
          [] ff.mode = "vortex" ->
               Atan2(dy, dx) + HalfPiMrad + RoundDiv(dist * 5, FP)
               + Times(noise2D(ff.perm, NoiseCoord(x, 5), NoiseCoord(y, 5) + ff.time),
                       1500)
          [] ff.mode = "chaos" ->
               Times(noise2D(ff.perm, NoiseCoord(x, 3), NoiseCoord(y, 3) + ff.time * 2),
                     2 * TwoPiMrad)
               + Times(noise2D(ff.perm, NoiseCoord(x, 5), NoiseCoord(y, 5) - ff.time),
                       TwoPiMrad)
          [] OTHER -> 0

\* The pointer blend of getVector, lines 219-233
MouseAngle(ff, x, y, angle) ==
    LET dx == x - ff.mouseX
        dy == y - ff.mouseY
        distToMouse == Sqrt(dx * dx + dy * dy)
        influence   == Milli - RoundDiv(distToMouse * Milli, mouseRadius * FP)
        mouseAngle  == Atan2(dy, dx) + PiMrad
        mixFactor   == RoundDiv(influence * mouseForce, FP)
    IN  IF ff.mousePressed /\ distToMouse < mouseRadius * FP
        THEN RoundDiv(angle * (Milli - mixFactor) + mouseAngle * mixFactor, Milli)
        ELSE angle

\* getVector(x, y), lines 150-240
getVector(ff, x, y) ==
    LET angle == MouseAngle(ff, x, y, ModeAngle(ff, x, y))
    IN  [x |-> Cos(angle), y |-> Sin(angle)]

\* update(), lines 245-247
FlowField_update(ff) == [ff EXCEPT !.time = ff.time + ff.timeSpeed]

\* setMousePosition(x, y), lines 252-255
FlowField_setMousePosition(ff, x, y) == [ff EXCEPT !.mouseX = x, !.mouseY = y]

\* setMousePressed(pressed), lines 260-262
FlowField_setMousePressed(ff, pressed) == [ff EXCEPT !.mousePressed = pressed]

\* setMode(mode), lines 267-284
FlowField_setMode(ff, mode) ==
    [ff EXCEPT !.mode = mode, !.timeSpeed = ModeTimeSpeed(mode)]

\* resize(width, height), lines 289-294
FlowField_resize(ff, width, height) ==
    [ff EXCEPT !.width = width, !.height = height,
               !.mouseX = RoundDiv(width, 2), !.mouseY = RoundDiv(height, 2)]

----------------------------------------------------------------------------
(* Inputs and bounds *)

\* A variable whose object does not exist in the program being run
NoObject == "none"

\* How many Particle.update calls one run makes
MaxUpdates == 22
\* How many times the caller changes its mind after the first update: another
\* force or speed multiplier, a reset, a change of the stored size
MaxChoices == 1

\* Canvas sizes {width, height} handed to constructors, reset and resize: an
\* ordinary one, one narrower than 2 * padding, one lower than 2 * margin
Sizes == { <<140 * FP, 120 * FP>>, <<60 * FP, 3 * FP>> }

\* Math.random() draws: 0, and the largest value below 1
RandomDraws == {0, RandDen - 1}

\* Unit force vectors and speed multipliers handed to Particle.update
Drives ==
    { [force |-> [x |-> 100, y |-> 0],    speed |-> 1 * FP],
      [force |-> [x |-> 60, y |-> 80],    speed |-> 0],
      [force |-> [x |-> -60, y |-> -80],  speed |-> 1 * FP],
      [force |-> [x |-> 80, y |-> -60],   speed |-> 100 * FP],
      [force |-> [x |-> -100, y |-> 0],   speed |-> -(40 * FP)] }

----------------------------------------------------------------------------
(* A Particle driven through its own interface: constructor, update, reset, *)
(* and the assignment of width and height that ParticleSystem.resize makes  *)

InitParticle ==
    /\ \E size \in Sizes, rx \in RandomDraws, ry \in RandomDraws, rh \in RandomDraws :
           particles = << Particle_new(size[1], size[2], rx, ry, rh) >>
    /\ flowField = NoObject
    /\ sys = NoObject
    /\ pc = "idle"
    /\ idx = 1
    /\ lastCall = [op |-> "new"]
    /\ tick = NoObject
    /\ budget = [updates |-> 0, choices |-> 0, drive |-> {}, resized |-> FALSE]

CallUpdate(d) ==
    /\ budget.updates < MaxUpdates
    /\ budget.drive \subseteq {d} \/ budget.choices < MaxChoices
    /\ particles' = [particles EXCEPT ![1] = Particle_update(@, d.force, d.speed)]
    /\ lastCall' = [op |-> "update", i |-> 1, force |-> d.force, speed |-> d.speed,
                    prevLen |-> Len(particles[1].history)]
    /\ budget' = [budget EXCEPT !.updates = @ + 1,
                                !.drive = {d},
                                !.choices = IF budget.drive \subseteq {d}
                                            THEN @ ELSE @ + 1]
    /\ UNCHANGED <<flowField, sys, pc, idx, tick>>

CallReset(size, rx, ry) ==
    /\ budget.choices < MaxChoices
    /\ particles' = [particles EXCEPT ![1] = Particle_reset(@, size[1], size[2], rx, ry)]
    /\ lastCall' = [op |-> "reset", width |-> size[1], height |-> size[2]]
    /\ budget' = [budget EXCEPT !.choices = @ + 1,
                                !.resized = @ \/ particles[1].width # size[1]
                                              \/ particles[1].height # size[2]]
    /\ UNCHANGED <<flowField, sys, pc, idx, tick>>

CallSetSize(size) ==
    /\ budget.choices < MaxChoices
    /\ particles' = [particles EXCEPT ![1] = Particle_setSize(@, size[1], size[2])]
    /\ lastCall' = [op |-> "setSize", width |-> size[1], height |-> size[2]]
    /\ budget' = [budget EXCEPT !.choices = @ + 1,
                                !.resized = @ \/ particles[1].width # size[1]
                                              \/ particles[1].height # size[2]]
    /\ UNCHANGED <<flowField, sys, pc, idx, tick>>

NextParticle ==
    \/ \E d \in Drives : CallUpdate(d)
    \/ \E size \in Sizes, rx \in RandomDraws, ry \in RandomDraws : CallReset(size, rx, ry)
    \/ \E size \in Sizes : CallSetSize(size)

SpecParticle == InitParticle /\ [][NextParticle]_vars

----------------------------------------------------------------------------
(* A FlowField driven through its own interface *)

\* How many calls one run makes on the field
MaxFieldCalls == 3

\* What consecutive Math.random() calls return: draw i is (a * i + b) mod RandDen
StreamLen == 256 + 5 * 2
Stream(a, b) == [i \in 0 .. StreamLen - 1 |-> (a * i + b) % RandDen]
\* 0, 1/256, 2/256, ...: every table value once; 1/2 every time; a scattered one
RandomStreams == { Stream(4, 0), Stream(0, 512), Stream(333, 7) }

FieldSizes == { <<200 * FP, 150 * FP>>, <<120 * FP, 100 * FP>> }
\* Mode arguments: the four modes and a string that is none of them
ModeArgs == Modes \cup {"other"}
\* Points handed to getVector and setMousePosition, one of them off the canvas
Points == { <<100 * FP, 100 * FP>>, <<-(30 * FP), 20 * FP>>, <<57 * FP, 131 * FP>> }

\* Arguments of noise2D, in 1/TimeDen: (-0.3, -0.5) in the cell (255, 255);
\* (256.5, 1.2) past the period; (0, 0); (-256.0001, 0.5) below minus one period
NoiseInputs ==
    { <<-3000, -5000>>, <<2565000, 12000>>, <<0, 0>>, <<-2560001, 5000>> }

InitField ==
    /\ \E size \in FieldSizes, mode \in ModeArgs, draws \in RandomStreams :
           flowField = FlowField_new(size[1], size[2], mode, draws)
    /\ particles = << >>
    /\ sys = NoObject
    /\ pc = "idle"
    /\ idx = 1
    /\ lastCall = [op |-> "new"]
    /\ tick = NoObject
    /\ budget = [calls |-> 0]

FieldCall ==
    /\ budget.calls < MaxFieldCalls
    /\ budget' = [budget EXCEPT !.calls = @ + 1]
    /\ UNCHANGED <<particles, sys, pc, idx, tick>>

CallFieldUpdate ==
    /\ FieldCall
    /\ flowField' = FlowField_update(flowField)
    /\ lastCall' = [op |-> "update"]

CallFieldSetMode(mode) ==
    /\ FieldCall
    /\ flowField' = FlowField_setMode(flowField, mode)
    /\ lastCall' = [op |-> "setMode", mode |-> mode]

CallFieldSetMousePosition(pt) ==
    /\ FieldCall
    /\ flowField' = FlowField_setMousePosition(flowField, pt[1], pt[2])
    /\ lastCall' = [op |-> "setMousePosition"]

CallFieldSetMousePressed(pressed) ==
    /\ FieldCall
    /\ flowField' = FlowField_setMousePressed(flowField, pressed)
    /\ lastCall' = [op |-> "setMousePressed"]

CallFieldResize(size) ==
    /\ FieldCall
    /\ flowField' = FlowField_resize(flowField, size[1], size[2])
    /\ lastCall' = [op |-> "resize"]

CallFieldInitPerlin(draws) ==
    /\ FieldCall
    /\ flowField' = FlowField_initPerlin(flowField, draws)
    /\ lastCall' = [op |-> "initPerlin"]

\* getVector changes no field; the observer keeps its arguments and result
CallFieldGetVector(pt) ==
    /\ FieldCall
    /\ flowField' = flowField
    /\ lastCall' = [op |-> "getVector", x |-> pt[1], y |-> pt[2],
                    result |-> getVector(flowField, pt[1], pt[2])]

\* noise2D changes no field; the observer keeps its arguments, the cell it
\* hashed and its result
CallFieldNoise2D(pt) ==
    /\ FieldCall
    /\ flowField' = flowField
    /\ lastCall' = [op |-> "noise2D", x |-> pt[1], y |-> pt[2],
                    cell |-> NoiseCell(flowField.perm, pt[1], pt[2]),
                    result |-> noise2D(flowField.perm, pt[1], pt[2])]

NextField ==
    \/ CallFieldUpdate
    \/ \E mode \in ModeArgs : CallFieldSetMode(mode)
    \/ \E pt \in Points : CallFieldSetMousePosition(pt)
    \/ \E pressed \in BOOLEAN : CallFieldSetMousePressed(pressed)
    \/ \E size \in FieldSizes : CallFieldResize(size)
    \/ \E draws \in RandomStreams : CallFieldInitPerlin(draws)
    \/ \E pt \in Points : CallFieldGetVector(pt)
    \/ \E pt \in NoiseInputs : CallFieldNoise2D(pt)

SpecField == InitField /\ [][NextField]_vars

----------------------------------------------------------------------------
(* ParticleSystem: src/src/ParticleSystem.js.  The calls on the renderer,   *)
(* the textures and the Graphics objects change no field modelled here.    *)

\* How many handler calls other than update one run makes, and how many updates
MaxCalls == 1
MaxTicks == 2

Counts == {0, 1, 2}
\* Values assigned to the public field speed: the initial 1.0, 0 and 2.5
Speeds == {1 * FP, 0, 250}

\* initParticles (lines 54-62) and the growing branch of setParticleCount
\* (lines 198-205): n particles, each taking five draws from position `from` on;
\* the first two are the x and y the Particle constructor ignores
RECURSIVE NewParticles(_, _, _, _, _)
NewParticles(n, width, height, draws, from) ==
    IF n = 0 THEN << >>
    ELSE << Particle_new(width, height, draws[from + 2], draws[from + 3],
                         draws[from + 4]) >>
         \o NewParticles(n - 1, width, height, draws, from + 5)

\* constructor(app, particleCount), lines 16-49; the FlowField takes the first
\* 256 draws
Init ==
    /\ \E size \in FieldSizes, count \in Counts, draws \in RandomStreams :
           /\ sys = [width |-> size[1], height |-> size[2],
                     particleCount |-> count, speed |-> 1 * FP]
           /\ flowField = FlowField_new(size[1], size[2], "flow", draws)
           /\ particles = NewParticles(count, size[1], size[2], draws, 256)
    /\ pc = "idle"
    /\ idx = 1
    /\ lastCall = [op |-> "new"]
    /\ tick = [fieldUpdates |-> 0, steps |-> << >>, queries |-> << >>]
    /\ budget = [calls |-> 0, ticks |-> 0]

\* A handler runs to completion: none starts while update is in its loop
Handler ==
    /\ pc = "idle"
    /\ budget.calls < MaxCalls
    /\ budget' = [budget EXCEPT !.calls = @ + 1]
    /\ UNCHANGED <<pc, idx, tick>>

\* update(), lines 76-78: the field's update, before the loop
SysUpdateBegin ==
    /\ pc = "idle"
    /\ budget.ticks < MaxTicks
    /\ flowField' = FlowField_update(flowField)
    /\ pc' = "loop"
    /\ idx' = 1
    /\ tick' = [fieldUpdates |-> 1,
                steps   |-> [k \in 1 .. Len(particles) |-> 0],
                queries |-> << >>]
    /\ lastCall' = [op |-> "fieldUpdate"]
    /\ budget' = [budget EXCEPT !.ticks = @ + 1]
    /\ UNCHANGED <<particles, sys>>

\* A wrong loop body: the field advances again for every particle
SysUpdateParticle_FieldPerParticle ==
    /\ pc = "loop"
    /\ idx <= Len(particles)
    /\ LET particle == particles[idx]
           field    == FlowField_update(flowField)
           force    == getVector(field, particle.x, particle.y)
       IN  /\ flowField' = field
           /\ particles' = [particles EXCEPT ![idx] = Particle_update(@, force, sys.speed)]
           /\ lastCall' = [op |-> "update", i |-> idx, force |-> force,
                           speed |-> sys.speed, prevLen |-> Len(particle.history)]
           /\ tick' = [tick EXCEPT
                         !.fieldUpdates = @ + 1,
                         !.steps[idx] = @ + 1,
                         !.queries = Append(@, [i |-> idx, x |-> particle.x,
                                                y |-> particle.y, time |-> field.time])]
    /\ idx' = idx + 1
    /\ UNCHANGED <<sys, pc, budget>>

\* update(), lines 91-98: one pass of the loop body; lines 102-133 only draw
SysUpdateParticle ==
    /\ pc = "loop"
    /\ idx <= Len(particles)
    /\ LET particle == particles[idx]
           force    == getVector(flowField, particle.x, particle.y)
       IN  /\ particles' = [particles EXCEPT ![idx] = Particle_update(@, force, sys.speed)]
           /\ lastCall' = [op |-> "update", i |-> idx, force |-> force,
                           speed |-> sys.speed, prevLen |-> Len(particle.history)]
           /\ tick' = [tick EXCEPT
                         !.steps[idx] = @ + 1,
                         !.queries = Append(@, [i |-> idx, x |-> particle.x,
                                                y |-> particle.y,
                                                time |-> flowField.time])]
    /\ idx' = idx + 1
    /\ UNCHANGED <<flowField, sys, pc, budget>>

\* update(), lines 91 and 137-141: the loop ends, the pass is rendered
SysUpdateEnd ==
    /\ pc = "loop"
    /\ idx > Len(particles)
    /\ pc' = "idle"
    /\ lastCall' = [op |-> "render"]
    /\ UNCHANGED <<flowField, particles, sys, idx, tick, budget>>

\* initParticles(), lines 54-62, called on a constructed system: the list is
\* replaced by particleCount new particles
SysInitParticles(draws) ==
    /\ Handler
    /\ particles' = NewParticles(sys.particleCount, sys.width, sys.height, draws, 0)
    /\ lastCall' = [op |-> "initParticles"]
    /\ UNCHANGED <<flowField, sys>>

\* An assignment to the field speed (line 23), which has no setter
SysAssignSpeed(speed) ==
    /\ Handler
    /\ sys' = [sys EXCEPT !.speed = speed]
    /\ lastCall' = [op |-> "speed", speed |-> speed]
    /\ UNCHANGED <<flowField, particles>>

\* setParticleCount(count), lines 195-212
SysSetParticleCount(count, draws) ==
    /\ Handler
    /\ particles' =
           IF count > sys.particleCount
           THEN particles \o NewParticles(count - sys.particleCount, sys.width,
                                          sys.height, draws, 0)
           ELSE IF count < sys.particleCount
           THEN SubSeq(particles, 1, Min(count, Len(particles)))
           ELSE particles
    /\ sys' = [sys EXCEPT !.particleCount = count]
    /\ lastCall' = [op |-> "setParticleCount", count |-> count]
    /\ UNCHANGED flowField

\* reset(), lines 217-232: particle k takes draws 2k-2 and 2k-1
SysReset(draws) ==
    /\ Handler
    /\ particles' = [k \in 1 .. Len(particles) |->
                        Particle_reset(particles[k], sys.width, sys.height,
                                       draws[2 * k - 2], draws[2 * k - 1])]
    /\ lastCall' = [op |-> "reset", width |-> sys.width, height |-> sys.height]
    /\ UNCHANGED <<flowField, sys>>

\* setMode(mode), lines 237-240
SysSetMode(mode) ==
    /\ Handler
    /\ flowField' = FlowField_setMode(flowField, mode)
    /\ lastCall' = [op |-> "setMode", mode |-> mode]
    /\ UNCHANGED <<particles, sys>>

\* setMousePosition(x, y), lines 245-247
SysSetMousePosition(pt) ==
    /\ Handler
    /\ flowField' = FlowField_setMousePosition(flowField, pt[1], pt[2])
    /\ lastCall' = [op |-> "setMousePosition"]
    /\ UNCHANGED <<particles, sys>>

\* setMousePressed(pressed), lines 252-254
SysSetMousePressed(pressed) ==
    /\ Handler
    /\ flowField' = FlowField_setMousePressed(flowField, pressed)
    /\ lastCall' = [op |-> "setMousePressed"]
    /\ UNCHANGED <<particles, sys>>

\* resize(width, height), lines 259-284
SysResize(size) ==
    /\ Handler
    /\ sys' = [sys EXCEPT !.width = size[1], !.height = size[2]]
    /\ flowField' = FlowField_resize(flowField, size[1], size[2])
    /\ particles' = [k \in 1 .. Len(particles) |->
                        Particle_setSize(particles[k], size[1], size[2])]
    /\ lastCall' = [op |-> "setSize", width |-> size[1], height |-> size[2]]

Next ==
    \/ SysUpdateBegin
    \/ SysUpdateParticle
    \/ SysUpdateEnd
    \/ \E draws \in RandomStreams : SysInitParticles(draws)
    \/ \E speed \in Speeds : SysAssignSpeed(speed)
    \/ \E count \in Counts, draws \in RandomStreams : SysSetParticleCount(count, draws)
    \/ \E draws \in RandomStreams : SysReset(draws)
    \/ \E mode \in ModeArgs : SysSetMode(mode)
    \/ \E pt \in Points : SysSetMousePosition(pt)
    \/ \E pressed \in BOOLEAN : SysSetMousePressed(pressed)
    \/ \E size \in FieldSizes : SysResize(size)

Spec == Init /\ [][Next]_vars

----------------------------------------------------------------------------
(* Particle properties, checked under SpecParticle *)

Updated(i) == lastCall.op = "update" /\ lastCall.i = i

\* C1: speed cap.  From construction or reset on, after any number of updates
\* with unit forces, vx^2 + vy^2 <= maxSpeed^2, up to the rounding of the
\* square root and of the two rescaled components (two units of the number
\* representation); also in steps where a bounce rewrites a velocity component.
C1_SpeedCap ==
    \A i \in DOMAIN particles :
        LET p == particles[i]
        IN  p.vx * p.vx + p.vy * p.vy <= (maxSpeed * FP + 2) * (maxSpeed * FP + 2)

\* An update in which the cap applied (the hue shows a speed above maxSpeed
\* before the cap) and a bounce rewrote the velocity
C1_Witness ==
    \E i \in DOMAIN particles :
        /\ Updated(i)
        /\ particles[i].bounced
        /\ particles[i].hue > 120 * FP
        /\ particles[i].vx # 0

\* C2 as stated: after every update the position is within
\* [margin, width - margin] x [margin, height - margin] of the stored size.
C2_Containment ==
    \A i \in DOMAIN particles :
        LET p == particles[i]
        IN  Updated(i) =>
                /\ margin * FP <= p.x /\ p.x <= p.width - margin * FP
                /\ margin * FP <= p.y /\ p.y <= p.height - margin * FP

\* C2 amended: after every update, on each axis whose stored dimension is at
\* least 2 * margin, the coordinate is within [margin, dimension - margin].
C2_ContainmentWhenRoom ==
    \A i \in DOMAIN particles :
        LET p == particles[i]
        IN  Updated(i) =>
                /\ p.width >= 2 * margin * FP =>
                       margin * FP <= p.x /\ p.x <= p.width - margin * FP
                /\ p.height >= 2 * margin * FP =>
                       margin * FP <= p.y /\ p.y <= p.height - margin * FP

\* An update that brought a particle back inside after its stored size changed
C2_Witness ==
    \E i \in DOMAIN particles :
        /\ Updated(i)
        /\ budget.resized
        /\ particles[i].bounced
        /\ particles[i].width >= 2 * margin * FP
        /\ particles[i].x = particles[i].width - margin * FP

\* C3: the history never holds more than maxHistory positions, and it is empty
\* right after an update in which either axis bounced.
C3_HistoryInvariant ==
    \A i \in DOMAIN particles :
        LET p == particles[i]
        IN  /\ Len(p.history) <= maxHistory
            /\ Updated(i) /\ p.bounced => p.history = << >>

\* A bounce that emptied a full history
C3_Witness ==
    \E i \in DOMAIN particles :
        /\ Updated(i)
        /\ particles[i].bounced
        /\ lastCall.prevLen = maxHistory
        /\ particles[i].history = << >>

\* C4 as stated: every update leaves hue = 120 * (capped speed / maxSpeed),
\* the speed of the velocity after the cap, so hue is within [0, 120].
C4_HueFromCappedSpeed ==
    [][ \A i \in DOMAIN particles :
            (lastCall'.op = "update" /\ lastCall'.i = i) =>
                LET m == Integrate(particles[i], lastCall'.force, lastCall'.speed)
                    q == particles'[i]
                IN  /\ q.hue = ColorHint(CurrentSpeed(m.vx, m.vy))
                    /\ 0 <= q.hue /\ q.hue <= 120 * FP ]_vars

\* C7 as stated: right after reset(width, height) the position is in the
\* 50-unit inset region, the velocity is zero, the history is empty and the
\* stored size is the one given.
C7_Reset ==
    \A i \in DOMAIN particles :
        LET p == particles[i]
        IN  lastCall.op = "reset" =>
                /\ padding * FP <= p.x /\ p.x <= lastCall.width - padding * FP
                /\ padding * FP <= p.y /\ p.y <= lastCall.height - padding * FP
                /\ p.vx = 0 /\ p.vy = 0
                /\ p.history = << >>
                /\ p.width = lastCall.width /\ p.height = lastCall.height

\* C7 amended: right after reset(width, height) x lies between 50 and
\* width - 50 and y between 50 and height - 50, whichever of the two is the
\* smaller (the inset region when the dimension is at least 100); the velocity
\* is zero, the history is empty and the stored size is the one given.
C7_ResetBetween ==
    \A i \in DOMAIN particles :
        LET p == particles[i]
            w == lastCall.width
            h == lastCall.height
        IN  lastCall.op = "reset" =>
                /\ Min(padding * FP, w - padding * FP) <= p.x
                /\ p.x <= Max(padding * FP, w - padding * FP)
                /\ Min(padding * FP, h - padding * FP) <= p.y
                /\ p.y <= Max(padding * FP, h - padding * FP)
                /\ p.vx = 0 /\ p.vy = 0
                /\ p.history = << >>
                /\ p.width = w /\ p.height = h

\* A reset of a particle that had moved, to another size, landing away from
\* the inset's corner
C7_Witness ==
    \E i \in DOMAIN particles :
        /\ lastCall.op = "reset"
        /\ budget.updates >= 2
        /\ budget.resized
        /\ lastCall.width >= 2 * padding * FP
        /\ particles[i].x > padding * FP
        /\ particles[i].vx = 0

\* C9: after an update without a bounce the history is the previous history
\* with the position held before the update appended last, and with the
\* oldest element dropped exactly when the previous length was maxHistory.
C9_HistoryFifo ==
    [][ \A i \in DOMAIN particles :
            (lastCall'.op = "update" /\ lastCall'.i = i /\ ~particles'[i].bounced) =>
                LET p   == particles[i]
                    pos == [x |-> p.x, y |-> p.y]
                IN  particles'[i].history =
                        IF Len(p.history) = maxHistory
                        THEN Append(Tail(p.history), pos)
                        ELSE Append(p.history, pos) ]_vars

\* An update without a bounce that dropped the oldest of 20 positions of a
\* moving particle
C9_Witness ==
    \E i \in DOMAIN particles :
        /\ Updated(i)
        /\ ~particles[i].bounced
        /\ lastCall.prevLen = maxHistory
        /\ Len(particles[i].history) = maxHistory
        /\ particles[i].history[1] # particles[i].history[maxHistory]

\* What C10 says of one axis: pos and vel after the step, from the integrated
\* coordinate c and capped velocity component v, against the dimension dim
C10_Axis(pos, vel, c, v, dim) ==
    /\ c < margin * FP =>
           pos = margin * FP /\ vel = RoundDiv(Abs(v) * damping, FP)
    /\ c > dim - margin * FP =>
           pos = dim - margin * FP /\ vel = -RoundDiv(Abs(v) * damping, FP)
    /\ (c >= margin * FP /\ c <= dim - margin * FP) => pos = c /\ vel = v

\* The same with the lower margin looked at first
C10_AxisLowFirst(pos, vel, c, v, dim) ==
    /\ c < margin * FP =>
           pos = margin * FP /\ vel = RoundDiv(Abs(v) * damping, FP)
    /\ (c >= margin * FP /\ c > dim - margin * FP) =>
           pos = dim - margin * FP /\ vel = -RoundDiv(Abs(v) * damping, FP)
    /\ (c >= margin * FP /\ c <= dim - margin * FP) => pos = c /\ vel = v

\* C10 as stated: in an update, on each axis on its own, an integrated
\* coordinate below margin is set to margin with velocity +0.7|v|, one above
\* dimension - margin is set to dimension - margin with velocity -0.7|v| (v the
\* capped component), and an axis that crossed neither keeps both.
C10_Bounce ==
    [][ \A i \in DOMAIN particles :
            (lastCall'.op = "update" /\ lastCall'.i = i) =>
                LET p == particles[i]
                    m == Integrate(p, lastCall'.force, lastCall'.speed)
                    q == particles'[i]
                IN  /\ C10_Axis(q.x, q.vx, m.x, m.vx, p.width)
                    /\ C10_Axis(q.y, q.vy, m.y, m.vy, p.height) ]_vars

\* C10 amended: as C10, the upper case holding for an integrated coordinate
\* that is above dimension - margin and not below margin: the lower margin is
\* looked at first (the two differ only when the dimension is below 2 * margin).
C10_BounceLowFirst ==
    [][ \A i \in DOMAIN particles :
            (lastCall'.op = "update" /\ lastCall'.i = i) =>
                LET p == particles[i]
                    m == Integrate(p, lastCall'.force, lastCall'.speed)
                    q == particles'[i]
                IN  /\ C10_AxisLowFirst(q.x, q.vx, m.x, m.vx, p.width)
                    /\ C10_AxisLowFirst(q.y, q.vy, m.y, m.vy, p.height) ]_vars

\* An update that bounced on x at the upper margin and left y as integrated
C10_Witness ==
    \E i \in DOMAIN particles :
        /\ Updated(i)
        /\ particles[i].bounced
        /\ particles[i].x = particles[i].width - margin * FP
        /\ particles[i].vx < 0
        /\ particles[i].y > margin * FP
        /\ particles[i].y < particles[i].height - margin * FP
        /\ particles[i].vy # 0

----------------------------------------------------------------------------
(* FlowField properties, checked under SpecField *)

\* The time-advance rates the specification gives per mode, in 1/TimeDen
C5_Rate(mode) ==
    CASE mode = "flow"   -> 3
      [] mode = "galaxy" -> 1
      [] mode = "vortex" -> 5
      [] mode = "chaos"  -> 10

\* C5 as stated: right after construction with one of the four modes, and after
\* every setMode, timeSpeed is the rate of the current mode, so that every
\* update advances time by the rate of the current mode.
C5_TimeSpeedTracksMode ==
    flowField.mode \in Modes => flowField.timeSpeed = C5_Rate(flowField.mode)

\* C6 as stated: perm[0..255] holds every value of 0..255 exactly once, the
\* upper half repeats the lower, every entry is in [0, 256); this from
\* construction on, whatever is called later.
C6_PermutationTable ==
    LET perm == flowField.perm
    IN  /\ \A v \in 0 .. 255 : Cardinality({i \in 0 .. 255 : perm[i] = v}) = 1
        /\ \A i \in 0 .. 255 : perm[i + 256] = perm[i]
        /\ \A i \in 0 .. TableSize - 1 : perm[i] \in 0 .. 255

\* The indices at which one noise2D call reads perm: X, X+1, A, A+1, B, B+1 for
\* the hashes and AA, AB, BA, BB for the gradients
C11_Reads(c) ==
    {c.X, c.X + 1, c.A, Plus(c.A, 1), c.B, Plus(c.B, 1), c.AA, c.AB, c.BA, c.BB}

\* C11: noise2D never reads outside its tables.  After every noise2D(x, y), with
\* negative and beyond-the-period coordinates among the inputs, the cell indices
\* X and Y are in [0, 255], every index used to read perm (X, X+1, A, A+1, B,
\* B+1, AA, AB, BA, BB) is in [0, 511], and no read yields undefined.
C11_NoiseReadsInTable ==
    lastCall.op = "noise2D" =>
        LET c == lastCall.cell
        IN  /\ c = NoiseCell(flowField.perm, lastCall.x, lastCall.y)
            /\ c.X \in 0 .. 255
            /\ c.Y \in 0 .. 255
            /\ \A i \in C11_Reads(c) :
                   /\ i \in 0 .. TableSize - 1
                   /\ TableRead(flowField.perm, i) # Undefined

\* noise2D was called with both coordinates negative, hashed the cell
\* (255, 255) and read the last entry of the table
C11_Witness ==
    /\ lastCall.op = "noise2D"
    /\ lastCall.x < 0
    /\ lastCall.y < 0
    /\ lastCall.cell.X = 255
    /\ lastCall.cell.Y = 255
    /\ lastCall.cell.A + 1 = TableSize - 1

----------------------------------------------------------------------------
(* ParticleSystem properties, checked under Spec *)

\* C8: in each ParticleSystem.update the field's time advances exactly once,
\* before any particle is stepped; then every particle of the list is stepped
\* exactly once, in list order, each with the force the field gives at the
\* position the particle had before its own step, the field's time staying the
\* same for the whole pass.
C8_FrameOrdering ==
    [][ /\ (pc = "idle" /\ pc' = "loop") =>
               /\ flowField'.time = flowField.time + flowField.timeSpeed
               /\ particles' = particles
               /\ idx' = 1
        /\ pc' = "loop" =>
               /\ tick'.fieldUpdates = 1
               /\ \A k \in 1 .. Len(particles') :
                      tick'.steps[k] = IF k < idx' THEN 1 ELSE 0
        /\ (pc = "loop" /\ pc' = "loop") =>
               LET particle == particles[idx]
                   query    == tick'.queries[Len(tick'.queries)]
               IN  /\ flowField'.time = flowField.time
                   /\ idx' = idx + 1
                   /\ Len(tick'.queries) = idx
                   /\ query = [i |-> idx, x |-> particle.x, y |-> particle.y,
                               time |-> flowField.time]
                   /\ lastCall'.force = getVector(flowField, particle.x, particle.y)
                   /\ \A k \in 1 .. Len(particles) :
                          k # idx => particles'[k] = particles[k]
                   /\ particles'[idx] = Particle_update(particle, lastCall'.force, sys.speed)
        /\ (pc = "loop" /\ pc' = "idle") =>
               /\ idx = Len(particles) + 1
               /\ \A k \in 1 .. Len(particles) : tick.steps[k] = 1
               /\ flowField' = flowField /\ particles' = particles ]_vars

\* A second pass over two particles has ended, each stepped once
C8_Witness ==
    /\ pc = "idle"
    /\ lastCall.op = "render"
    /\ budget.ticks = 2
    /\ Len(particles) = 2
    /\ tick.fieldUpdates = 1
    /\ \A k \in 1 .. 2 : tick.steps[k] = 1
    /\ tick.queries[1].time = tick.queries[2].time
    /\ tick.queries[1].time = flowField.time

====
